---- MODULE Spec2Model ----
(***************************************************************************)
(* Model of the format-markdown plugin (src/format-markdown/index.js).     *)
(*                                                                         *)
(* A JavaScript string is a sequence of code units; each code unit is a    *)
(* TLA+ string naming one character ("a", "*", "\n", "<bullet>", ...).     *)
(* Positions are 1-based here (index i of the source is position i+1).     *)
(* Every regular expression of the source is an operator that returns the  *)
(* match the backtracking engine of the language returns: leftmost start,  *)
(* alternatives in order, greedy and lazy quantifiers as written.          *)
(***************************************************************************)
EXTENDS Integers, Sequences, FiniteSets, TLC

(***************************************************************************)
(* Characters and character classes                                        *)
(***************************************************************************)
NL == "\n"

\* the backtick character (a string of the notation cannot hold it)
BT == "<backtick>"

BULLET == "<bullet>"

ELLIPSIS == "<ellipsis>"

BOX == [h |-> "<box-h>", v |-> "<box-v>",
        tl |-> "<box-tl>", tr |-> "<box-tr>", bl |-> "<box-bl>", br |-> "<box-br>",
        lj |-> "<box-lj>", rj |-> "<box-rj>", tj |-> "<box-tj>", bj |-> "<box-bj>",
        cross |-> "<box-cross>"]

WordChars ==
    {"a","b","c","d","e","f","g","h","i","j","k","l","m",
     "n","o","p","q","r","s","t","u","v","w","x","y","z",
     "A","B","C","D","E","F","G","H","I","J","K","L","M",
     "N","O","P","Q","R","S","T","U","V","W","X","Y","Z",
     "0","1","2","3","4","5","6","7","8","9","_"}

LineTerminators == {"\n", "\r"}

SpaceChars == {" ", "\t", "\n", "\r", "\f"}

\* the reserved set of the MarkdownV2 dialect
TELEGRAM_SPECIAL ==
    {"_","*","[","]","(",")","~",BT,">","#","+","-","=","|","{","}",".","!","\\"}

TELEGRAM_TABLE_MAX_WIDTH == 60

(***************************************************************************)
(* String primitives                                                       *)
(***************************************************************************)
\* the character at position p, or "" outside the string
At(s, p) == IF p \in 1..Len(s) THEN s[p] ELSE ""

Slice(s, from, to) == IF from > to THEN <<>> ELSE SubSeq(s, from, to)

StartsWithAt(s, p, lit) ==
    /\ p >= 1
    /\ p + Len(lit) - 1 <= Len(s)
    /\ \A k \in 1..Len(lit) : s[p + k - 1] = lit[k]

SetMin(S) == CHOOSE x \in S : \A y \in S : x <= y

SetMax(S) == CHOOSE x \in S : \A y \in S : x >= y

\* the least position of a set of positions, 0 when there is none
MinOr0(S) == IF S = {} THEN 0 ELSE SetMin(S)

\* an array of the language: a function on 1..n, held as a tuple
Array(f) == <<>> \o f

\* first position >= p where lit occurs, 0 when there is none
IndexOfFrom(s, p, lit) == MinOr0({i \in p..Len(s) : StartsWithAt(s, i, lit)})

\* first position >= p whose character is outside the class (neg = FALSE:
\* the class is C; neg = TRUE: the class is the complement of C)
RunEnd(s, p, C, neg) ==
    IF p > Len(s) THEN p
    ELSE SetMin({i \in p..Len(s) : (s[i] \in C) = neg} \cup {Len(s) + 1})

Repeat(c, n) == [i \in 1..n |-> c]

RECURSIVE FlattenRange(_, _, _)
FlattenRange(parts, lo, hi) ==
    IF lo > hi THEN <<>>
    ELSE IF lo = hi THEN parts[lo]
    ELSE FlattenRange(parts, lo, (lo + hi) \div 2)
            \o FlattenRange(parts, ((lo + hi) \div 2) + 1, hi)

\* the concatenation of a sequence of strings
Flatten(parts) == FlattenRange(parts, 1, Len(parts))

\* Array.prototype.join
Join(parts, sep) ==
    Flatten([i \in 1..(2 * Len(parts) - 1) |->
                IF i % 2 = 1 THEN parts[(i + 1) \div 2] ELSE sep])

\* String.prototype.split with a one-character separator: part k lies
\* between the separators number k-1 and k (the ends of s being separators)
Split(s, c) ==
    LET seps == {i \in 1..Len(s) : s[i] = c} \cup {0, Len(s) + 1}
        nth(k) == CHOOSE p \in seps : Cardinality({q \in seps : q < p}) = k
    IN  Array([k \in 1..(Cardinality(seps) - 1) |-> Slice(s, nth(k - 1) + 1, nth(k) - 1)])

TrimEnd(s) == Slice(s, 1, SetMax({i \in 1..Len(s) : s[i] \notin SpaceChars} \cup {0}))

Trim(s) ==
    LET TrimStart(t) == Slice(t, RunEnd(t, 1, SpaceChars, FALSE), Len(t))
    IN  TrimStart(TrimEnd(s))

LineStart(s, p) == p = 1 \/ At(s, p - 1) \in LineTerminators

LineEnd(s, p) == p = Len(s) + 1 \/ At(s, p) \in LineTerminators

(***************************************************************************)
(* Regular expressions.  A match is [ok, index, end, alt, span, g]: index   *)
(* is the first position of the match, end the first position after it,    *)
(* alt the alternative that matched, span the first and last position of   *)
(* each captured group and g the text of each group.                       *)
(***************************************************************************)
NoMatch == [ok |-> FALSE, index |-> 0, end |-> 0, alt |-> 0, span |-> <<>>, g |-> <<>>]

Match(s, p, e, a, spans) ==
    [ok |-> TRUE, index |-> p, end |-> e, alt |-> a, span |-> spans,
     g |-> [i \in 1..Len(spans) |-> Slice(s, spans[i][1], spans[i][2])]]

\* (.+?) starting at q and followed by the literal lit (and by (?!\w) when
\* la): the position of lit for the shortest group that fits, 0 for none
LazyDot(s, q, lit, la) ==
    MinOr0({e \in (q + 1)..(RunEnd(s, q, LineTerminators, TRUE) - 1) :
               /\ StartsWithAt(s, e, lit)
               /\ la => At(s, e + Len(lit)) \notin WordChars})

\* /\*\*(.+?)\*\*/ and /~~(.+?)~~/
MatchPair(s, p, mark, a) ==
    LET Close(e) == IF e = 0 THEN NoMatch
                    ELSE Match(s, p, e + Len(mark), a, <<<<p + Len(mark), e - 1>>>>)
    IN  IF ~StartsWithAt(s, p, mark) THEN NoMatch
        ELSE Close(LazyDot(s, p + Len(mark), mark, FALSE))

\* /(?<!\w)\*(.+?)\*(?!\w)/ and /(?<!\w)_(.+?)_(?!\w)/
MatchItalic(s, p, mark, a) ==
    LET Close(e) == IF e = 0 THEN NoMatch
                    ELSE Match(s, p, e + 1, a, <<<<p + 1, e - 1>>>>)
    IN  IF At(s, p) # mark \/ At(s, p - 1) \in WordChars THEN NoMatch
        ELSE Close(LazyDot(s, p + 1, <<mark>>, TRUE))

\* /\[([^\]]+)\]\(([^)]+)\)/
MatchLink(s, p, a) ==
    LET Target(j, k) ==
            IF j = p + 1 \/ At(s, j) # "]" \/ At(s, j + 1) # "("
               \/ k = j + 2 \/ At(s, k) # ")"
            THEN NoMatch
            ELSE Match(s, p, k + 1, a, <<<<p + 1, j - 1>>, <<j + 2, k - 1>>>>)
        Label(j) == Target(j, RunEnd(s, j + 2, {")"}, TRUE))
    IN  IF At(s, p) # "[" THEN NoMatch
        ELSE Label(RunEnd(s, p + 1, {"]"}, TRUE))

\* /(?:https?:\/\/[^\s<>\[\]()]+)/
MatchUrl(s, p, a) ==
    LET Rest(q, e) == IF e = q THEN NoMatch ELSE Match(s, p, e, a, <<>>)
        Scheme(q) ==
            IF q = 0 THEN NoMatch
            ELSE Rest(q, RunEnd(s, q, SpaceChars \cup {"<", ">", "[", "]", "(", ")"}, TRUE))
    IN  Scheme(IF StartsWithAt(s, p, <<"h","t","t","p","s",":","/","/">>) THEN p + 8
               ELSE IF StartsWithAt(s, p, <<"h","t","t","p",":","/","/">>) THEN p + 7
               ELSE 0)

\* /`([^`\n]+)`/ (nl = TRUE) and /`([^`]+)`/ (nl = FALSE)
MatchInlineCode(s, p, nl) ==
    LET Close(e) == IF e = p + 1 \/ At(s, e) # BT THEN NoMatch
                    ELSE Match(s, p, e + 1, 1, <<<<p + 1, e - 1>>>>)
    IN  IF At(s, p) # BT THEN NoMatch
        ELSE Close(RunEnd(s, p + 1, IF nl THEN {BT, NL} ELSE {BT}, TRUE))

\* /```(\w*)\n?([\s\S]*?)```/
MatchCodeBlock(s, p) ==
    LET Close(w, c, e) ==
            IF e = 0 THEN NoMatch
            ELSE Match(s, p, e + 3, 1, <<<<p + 3, w - 1>>, <<c, e - 1>>>>)
        Content(w, c) == Close(w, c, IndexOfFrom(s, c, <<BT, BT, BT>>))
        Lang(w) == Content(w, IF At(s, w) = NL THEN w + 1 ELSE w)
    IN  IF ~StartsWithAt(s, p, <<BT, BT, BT>>) THEN NoMatch
        ELSE Lang(RunEnd(s, p + 3, WordChars, FALSE))

\* \s+ (the run q..w-1) gives characters back until (.+) finds a character
\* to start on: the position where (.+) starts, 0 when there is none
HeadingBody(s, q, w) ==
    SetMax({b \in (q + 1)..w : At(s, b) # "" /\ At(s, b) \notin LineTerminators} \cup {0})

\* /^#{1,6}\s+(.+)$/m
MatchHeading(s, p) ==
    LET Body(q, w, b) ==
            IF q - p > 6 \/ w = q \/ b = 0 THEN NoMatch
            ELSE Match(s, p, RunEnd(s, b, LineTerminators, TRUE), 1,
                       <<<<b, RunEnd(s, b, LineTerminators, TRUE) - 1>>>>)
        Space(q, w) == Body(q, w, HeadingBody(s, q, w))
        Marks(q) == Space(q, RunEnd(s, q, SpaceChars, FALSE))
    IN  IF ~LineStart(s, p) \/ At(s, p) # "#" THEN NoMatch
        ELSE Marks(RunEnd(s, p, {"#"}, FALSE))

\* /^#{1,6}\s+/m
MatchHeadingMarker(s, p) ==
    LET Space(q, w) == IF q - p > 6 \/ w = q THEN NoMatch ELSE Match(s, p, w, 1, <<>>)
        Marks(q) == Space(q, RunEnd(s, q, SpaceChars, FALSE))
    IN  IF ~LineStart(s, p) \/ At(s, p) # "#" THEN NoMatch
        ELSE Marks(RunEnd(s, p, {"#"}, FALSE))

\* /^---+$/m
MatchRule(s, p) ==
    LET Dashes(e) == IF e - p < 3 \/ ~LineEnd(s, e) THEN NoMatch
                     ELSE Match(s, p, e, 1, <<>>)
    IN  IF ~LineStart(s, p) THEN NoMatch
        ELSE Dashes(RunEnd(s, p, {"-"}, FALSE))

\* /^[\t ]*[-*]\s+/m
MatchBullet(s, p) ==
    LET Space(q, e) == IF At(s, q) \notin {"-", "*"} \/ e = q + 1 THEN NoMatch
                       ELSE Match(s, p, e, 1, <<>>)
        Indent(q) == Space(q, RunEnd(s, q + 1, SpaceChars, FALSE))
    IN  IF ~LineStart(s, p) THEN NoMatch
        ELSE Indent(RunEnd(s, p, {"\t", " "}, FALSE))

\* /\n{3,}/
MatchNewlines(s, p) ==
    LET Run(e) == IF e - p < 3 THEN NoMatch ELSE Match(s, p, e, 1, <<>>)
    IN  Run(RunEnd(s, p, {NL}, FALSE))

\* one character of a class, captured: /([_*\[\]()~`>#+\-=|{}.!\\])/ for the
\* class TELEGRAM_SPECIAL and /([)\\])/
MatchClass(s, p, C) ==
    IF At(s, p) \in C THEN Match(s, p, p + 1, 1, <<<<p, p>>>>) ELSE NoMatch

\* one iteration of (?:\|.+\|\n?) at b: the position after it, 0 when it
\* fails; j is the last "|" of the line after one character at least
BodyRowEnd(s, b) ==
    LET After(j) == IF j = 0 THEN 0
                    ELSE IF At(s, j + 1) = NL THEN j + 2 ELSE j + 1
    IN  IF At(s, b) # "|" THEN 0
        ELSE After(SetMax({i \in (b + 2)..(RunEnd(s, b, LineTerminators, TRUE) - 1) :
                              At(s, i) = "|"} \cup {0}))

RECURSIVE BodyEnd(_, _)
\* (?:\|.+\|\n?)+ from b, one iteration already matched up to e
BodyEnd(s, e) ==
    LET More(n) == IF n = 0 THEN e ELSE BodyEnd(s, n)
    IN  More(BodyRowEnd(s, e))

SeparatorClass == SpaceChars \cup {":", "|", "-"}

\* [\s:|-]+ is greedy: the last "|" of the run lo..hi that is followed by a
\* newline and a body row closes the separator, 0 when there is none
SeparatorClose(s, lo, hi) ==
    SetMax({c \in lo..hi : At(s, c) = "|" /\ At(s, c + 1) = NL
                              /\ BodyRowEnd(s, c + 2) # 0} \cup {0})

\* tableRegex, /^(\|.+\|)\n(\|[\s:|-]+\|)\n((?:\|.+\|\n?)+)/m: he is the end
\* of the header line, c the "|" that closes the separator, e the end of the
\* body
MatchTable(s, p) ==
    LET Body(he, c, e) ==
            Match(s, p, e, 1, <<<<p, he - 1>>, <<he + 1, c>>, <<c + 2, e - 1>>>>)
        Separator(he, c) ==
            IF he - p < 3 \/ At(s, he - 1) # "|" \/ At(s, he) # NL
               \/ At(s, he + 1) # "|" \/ c = 0
            THEN NoMatch
            ELSE Body(he, c, BodyEnd(s, BodyRowEnd(s, c + 2)))
        Header(he) ==
            Separator(he, SeparatorClose(s, he + 3,
                                         RunEnd(s, he + 2, SeparatorClass, FALSE) - 1))
    IN  IF ~LineStart(s, p) \/ At(s, p) # "|" THEN NoMatch
        ELSE Header(RunEnd(s, p, LineTerminators, TRUE))

(***************************************************************************)
(* The engine: exec from a position, and replace with a template.          *)
(***************************************************************************)
\* of the matches tried at the positions 1, 2, ... (or of the alternatives
\* tried at one position), the first that succeeded at from or after it
Leftmost(hits, from) ==
    LET starts == {p \in from..Len(hits) : hits[p].ok}
    IN  IF starts = {} THEN NoMatch ELSE hits[SetMin(starts)]

\* the alternation of inlineRegex, alternatives tried in the order written
MatchInline(s, p) ==
    Leftmost(<<MatchPair(s, p, <<"*", "*">>, 1),
               MatchPair(s, p, <<"~", "~">>, 2),
               MatchLink(s, p, 3),
               MatchUrl(s, p, 4),
               MatchItalic(s, p, "*", 5),
               MatchItalic(s, p, "_", 6)>>, 1)

MatchAt(re, s, p) ==
    CASE re = "bold"          -> MatchPair(s, p, <<"*", "*">>, 1)
      [] re = "strike"        -> MatchPair(s, p, <<"~", "~">>, 1)
      [] re = "italicStar"    -> MatchItalic(s, p, "*", 1)
      [] re = "italicUnder"   -> MatchItalic(s, p, "_", 1)
      [] re = "link"          -> MatchLink(s, p, 1)
      [] re = "inlineCode"    -> MatchInlineCode(s, p, TRUE)
      [] re = "cellCode"      -> MatchInlineCode(s, p, FALSE)
      [] re = "codeBlock"     -> MatchCodeBlock(s, p)
      [] re = "heading"       -> MatchHeading(s, p)
      [] re = "headingMarker" -> MatchHeadingMarker(s, p)
      [] re = "rule"          -> MatchRule(s, p)
      [] re = "bullet"        -> MatchBullet(s, p)
      [] re = "newlines"      -> MatchNewlines(s, p)
      [] re = "special"       -> MatchClass(s, p, TELEGRAM_SPECIAL)
      [] re = "hrefSpecial"   -> MatchClass(s, p, {")", "\\"})
      [] re = "inline"        -> MatchInline(s, p)
      [] re = "table"         -> MatchTable(s, p)

\* what the regular expression matches at each position of s
Hits(re, s) == Array([p \in 1..Len(s) |-> MatchAt(re, s, p)])

\* RegExp.prototype.exec with lastIndex = from - 1
Exec(re, s, from) == Leftmost(Hits(re, s), from)

RECURSIVE Successive(_, _)
\* exec called until it fails, each call starting where the match before
\* it ended
Successive(hits, from) ==
    LET Then(m) == IF ~m.ok THEN <<>> ELSE <<m>> \o Successive(hits, m.end)
    IN  IF from > Len(hits) THEN <<>> ELSE Then(Leftmost(hits, from))

\* the successive matches of a global regular expression in s, in order
MatchesFrom(re, s, from) == Successive(Hits(re, s), from)

(***************************************************************************)
(* Marked strings.  To tell what the renderer wrote from what the message  *)
(* held, a string is carried with one mark per character:                  *)
(*   "text"  a character of the message, outside code                      *)
(*   "code"  the content or the language tag of a code segment             *)
(*   "href"  a character of a link target                                  *)
(*   "table" a character of a box table or of a card                       *)
(*   "esc"   a backslash written by the escaping                           *)
(*   "ins"   any other character written by the renderer (emphasis         *)
(*           markers, link brackets, code fences, bullets, newlines)       *)
(***************************************************************************)
Marked(t, m) == [text |-> t, mark |-> m]

Ins(lit, tag) == Marked(lit, [i \in 1..Len(lit) |-> tag])

Plain(s) == Ins(s, "text")

MSlice(ms, from, to) == Marked(Slice(ms.text, from, to), Slice(ms.mark, from, to))

MCat(a, b) == Marked(a.text \o b.text, a.mark \o b.mark)

MFlatten(parts) ==
    Marked(Flatten([i \in 1..Len(parts) |-> parts[i].text]),
           Flatten([i \in 1..Len(parts) |-> parts[i].mark]))

\* the value that a chain of assignments leaves: the values assigned, each
\* computed from the ones before it, and the last of them
Last(steps) == steps[Len(steps)]

\* the text from the start of the match before match i up to match i
GapFromMatchStart(ms, matches, i) ==
    MSlice(ms, IF i = 1 THEN 1 ELSE matches[i - 1].index,
               IF i > Len(matches) THEN Len(ms.text) ELSE matches[i].index - 1)

\* the text between the match before match i and match i (the text after
\* the last match for i past the matches): slice(lastIndex, match.index)
Gap(ms, matches, i) ==
    MSlice(ms, IF i = 1 THEN 1 ELSE matches[i - 1].end,
               IF i > Len(matches) THEN Len(ms.text) ELSE matches[i].index - 1)

\* what comes before the first match, what is made of the first match, what
\* lies between the first and the second match, and so on; before is a
\* sequence of sequences, one longer than made
Interleave(before, made) ==
    Flatten([i \in 1..(Len(before) + Len(made)) |->
                IF i % 2 = 1 THEN before[(i + 1) \div 2] ELSE <<made[i \div 2]>>])

\* the text with each match replaced by its replacement
Splice(ms, matches, replacements) ==
    MFlatten(Interleave(Array([i \in 1..(Len(matches) + 1) |-> <<Gap(ms, matches, i)>>]),
                        replacements))

\* a replacement template is a sequence of [lit, grp]: the literal text,
\* then the captured group grp ($grp; 0 for none)
T(l, n) == [lit |-> l, grp |-> n]

\* the replacement of the match m in ms: the literal text is written by the
\* renderer (mark tag), a group keeps the marks of the text it captured
Expand(tmpl, ms, m, tag) ==
    MFlatten([i \in 1..(2 * Len(tmpl)) |->
                IF i % 2 = 1 THEN Ins(tmpl[(i + 1) \div 2].lit, tag)
                ELSE IF tmpl[i \div 2].grp = 0 THEN Ins(<<>>, tag)
                ELSE MSlice(ms, m.span[tmpl[i \div 2].grp][1],
                                m.span[tmpl[i \div 2].grp][2])])

\* String.prototype.replace with a global regular expression (replace
\* starts at lastIndex 0), on a marked string
MReplace(re, ms, tmpl, tag) ==
    LET Replaced(matches) ==
            IF matches = <<>> THEN ms
            ELSE Splice(ms, matches,
                        Array([k \in 1..Len(matches) |->
                                  Expand(tmpl, ms, matches[k], tag)]))
    IN  IF ms.text = <<>> THEN ms
        ELSE Replaced(MatchesFrom(re, ms.text, 1))

\* a rewrite: text = text.replace(re, tmpl)
Rule(r, t) == [re |-> r, tmpl |-> t]

RECURSIVE ApplyRules(_, _, _)
\* the rewrites from number i on, made one after the other
ApplyRules(rules, ms, i) ==
    IF i > Len(rules) \/ ms.text = <<>> THEN ms
    ELSE ApplyRules(rules, MReplace(rules[i].re, ms, rules[i].tmpl, "ins"), i + 1)

Group1 == <<T(<<>>, 1)>>

CellRules ==
    <<Rule("bold", Group1),
      Rule("italicStar", Group1),
      Rule("strike", Group1),
      Rule("cellCode", Group1),
      Rule("link", Group1)>>

stripCellMarkdown(cell) == ApplyRules(CellRules, Plain(cell), 1).text

(***************************************************************************)
(* Tables                                                                  *)
(***************************************************************************)
\* a number of the language: an integer, or NaN (undefined behaves as NaN in
\* every comparison and subtraction made here)
Num(n) == [nan |-> FALSE, v |-> n]

NaN == [nan |-> TRUE, v |-> 0]

\* String.prototype.repeat: NaN counts as 0
RepeatN(c, n) == IF n.nan THEN <<>> ELSE Repeat(c, n.v)

Max2(a, b) == IF a >= b THEN a ELSE b

RECURSIVE SumRange(_, _, _)
SumRange(ws, lo, hi) ==
    IF lo > hi THEN 0
    ELSE IF lo = hi THEN ws[lo]
    ELSE SumRange(ws, lo, (lo + hi) \div 2) + SumRange(ws, ((lo + hi) \div 2) + 1, hi)

\* reduce((a, b) => a + b, 0)
Sum(ws) == SumRange(ws, 1, Len(ws))

RECURSIVE GCD(_, _)
GCD(a, b) == IF b = 0 THEN a ELSE GCD(b, a % b)

\* Array.prototype.slice(1, -1)
Inner(xs) == Slice(xs, 2, Len(xs) - 1)

parseAlignments(separator) ==
    LET Alignment(trimmed) ==
            IF At(trimmed, 1) = ":" /\ At(trimmed, Len(trimmed)) = ":" THEN "center"
            ELSE IF At(trimmed, Len(trimmed)) = ":" THEN "right"
            ELSE "left"
        Cells(cells) == Array([i \in 1..Len(cells) |-> Alignment(Trim(cells[i]))])
    IN  Cells(Inner(Split(separator, "|")))

\* padAligned with every cell aligned to the left
padAlignedLeft(s, width, align) ==
    IF ~width.nan /\ Len(s) >= width.v THEN s
    ELSE s \o RepeatN(" ", IF width.nan THEN NaN ELSE Num(width.v - Len(s)))

padAligned(s, width, align) ==
    IF ~width.nan /\ Len(s) >= width.v THEN s
    ELSE LET gap  == IF width.nan THEN NaN ELSE Num(width.v - Len(s))
             left == IF gap.nan THEN NaN ELSE Num(gap.v \div 2)
             rest == IF gap.nan THEN NaN ELSE Num(gap.v - left.v)
         IN  IF align = "right" THEN RepeatN(" ", gap) \o s
             ELSE IF align = "center" THEN RepeatN(" ", left) \o s \o RepeatN(" ", rest)
             ELSE s \o RepeatN(" ", gap)

truncate(s, max) ==
    IF ~max.nan /\ Len(s) > max.v THEN Slice(s, 1, max.v - 1) \o <<ELLIPSIS>> ELSE s

parseRow(row) ==
    LET Cells(cells) == Array([i \in 1..Len(cells) |-> stripCellMarkdown(Trim(cells[i]))])
    IN  Cells(Inner(Split(row, "|")))

\* (r[i] || '') and (aligns[i] || 'left')
CellOr(r, i) == IF i \in 1..Len(r) THEN r[i] ELSE <<>>

AlignOr(aligns, i) == IF i \in 1..Len(aligns) THEN aligns[i] ELSE "left"

\* Math.floor((w / totalContent) * available) is computed in doubles: it is
\* the exact floor, except that on these reduced fractions w/totalContent
\* (with the given available) the product falls just below the exact integer
DoubleRoundsDown ==
    {<<13, 23, 23>>, <<15, 26, 26>>, <<15, 22, 44>>, <<15, 44, 44>>, <<3, 47, 47>>,
     <<6, 47, 47>>, <<12, 47, 47>>, <<24, 47, 47>>, <<31, 47, 47>>, <<29, 50, 50>>}

\* the share rounded up instead of down
CeilShare(w, totalContent, available) ==
    -(((-w) * available) \div totalContent)

FloorShare(w, totalContent, available) ==
    LET g == GCD(w, totalContent)
    IN  (w * available) \div totalContent
          - (IF <<w \div g, totalContent \div g, available>> \in DoubleRoundsDown
             THEN 1 ELSE 0)

\* colWidths before scaling: the longest cell of each column,
\* Math.max(h.length, ...bodyRows.map(r => (r[i] || '').length))
NaturalWidths(headers, bodyRows) ==
    Array([i \in 1..Len(headers) |->
              SetMax({Len(headers[i])}
                     \cup {Len(CellOr(bodyRows[r], i)) : r \in 1..Len(bodyRows)})])

\* the borders and the padding of a box of numCols columns
Overhead(numCols) == (numCols - 1) * 3 + 4

\* the share without the minimum of 2
ScaledWidthNoFloor(w, totalContent, available) ==
    FloorShare(w, totalContent, available)

\* Math.max(2, Math.floor((w / totalContent) * available))
ScaledWidth(w, totalContent, available) ==
    Max2(2, FloorShare(w, totalContent, available))

\* the column widths of the box table of the strict channel: the natural
\* widths, scaled when the box would be wider than TELEGRAM_TABLE_MAX_WIDTH;
\* with no content at all the scaling divides zero by zero
ColWidths(headers, bodyRows) ==
    LET Scaled(natural, totalContent, available) ==
            Array([i \in 1..Len(natural) |->
                      IF totalContent = 0 THEN NaN
                      ELSE Num(ScaledWidth(natural[i], totalContent, available))])
        Widths(natural, overhead) ==
            IF Sum(natural) + overhead > TELEGRAM_TABLE_MAX_WIDTH
            THEN Scaled(natural, Sum(natural), TELEGRAM_TABLE_MAX_WIDTH - overhead)
            ELSE Array([i \in 1..Len(natural) |-> Num(natural[i])])
    IN  Widths(NaturalWidths(headers, bodyRows), Overhead(Len(headers)))

\* colWidths[i], undefined past the last column
WidthOr(colWidths, i) == IF i \in 1..Len(colWidths) THEN colWidths[i] ELSE NaN

\* the three parts of a table match, as the callback of the replace sees them
TableModel(m) ==
    LET Rows(lines) == Array([i \in 1..Len(lines) |-> parseRow(lines[i])])
    IN  [headers  |-> parseRow(m.g[1]),
         aligns   |-> parseAlignments(m.g[2]),
         bodyRows |-> Rows(Split(TrimEnd(m.g[3]), NL))]

\* colWidths and lines of the box
BoxTable(t) ==
    LET \* r.map((c, i) => padAligned(truncate(c, colWidths[i]), colWidths[i], ...))
        FormatRow(r, colWidths) ==
            Array([i \in 1..Len(r) |->
                      padAligned(truncate(r[i], WidthOr(colWidths, i)),
                                 WidthOr(colWidths, i), AlignOr(t.aligns, i))])
        \* l + colWidths.map(w => BOX.h.repeat(w + 2)).join(j) + r
        Border(colWidths, l, j, r) ==
            <<l>> \o Join([i \in 1..Len(colWidths) |->
                              RepeatN(BOX.h, IF colWidths[i].nan THEN NaN
                                             ELSE Num(colWidths[i].v + 2))], <<j>>)
                  \o <<r>>
        \* BOX.v + cells.map(c => ` ${c} `).join(BOX.v) + BOX.v
        BoxLine(cells) ==
            <<BOX.v>> \o Join([i \in 1..Len(cells) |-> <<" ">> \o cells[i] \o <<" ">>],
                              <<BOX.v>>)
                      \o <<BOX.v>>
        Lines(colWidths) ==
            <<Border(colWidths, BOX.tl, BOX.tj, BOX.tr),
              BoxLine(FormatRow(t.headers, colWidths)),
              Border(colWidths, BOX.lj, BOX.cross, BOX.rj)>>
            \o [r \in 1..Len(t.bodyRows) |-> BoxLine(FormatRow(t.bodyRows[r], colWidths))]
            \o <<Border(colWidths, BOX.bl, BOX.bj, BOX.br)>>
        Box(colWidths) == [colWidths |-> colWidths, lines |-> Lines(colWidths)]
    IN  Box(ColWidths(t.headers, t.bodyRows))

Cards(t) ==
    Array([r \in 1..Len(t.bodyRows) |->
              Join([i \in 1..Len(t.headers) |->
                       t.headers[i] \o <<":", " ">> \o CellOr(t.bodyRows[r], i)],
                   <<NL>>)])

\* the replacement of one table match
TableText(m, channel) ==
    LET Render(t) ==
            IF channel = "telegram"
            THEN MFlatten(<<Ins(<<NL, BT, BT, BT, NL>>, "ins"),
                            Ins(Join(BoxTable(t).lines, <<NL>>), "table"),
                            Ins(<<NL, BT, BT, BT, NL>>, "ins")>>)
            ELSE MFlatten(<<Ins(<<NL>>, "ins"),
                            Ins(Join(Cards(t), <<NL, NL>>), "table"),
                            Ins(<<NL>>, "ins")>>)
        Parsed(t) == Last(<<t, Render(t)>>)
    IN  Parsed(TableModel(m))

\* text.replace(tableRegex, callback) on a marked string
MConvertTables(ms, channel) ==
    LET Converted(matches) ==
            IF matches = <<>> THEN ms
            ELSE Splice(ms, matches,
                        Array([k \in 1..Len(matches) |-> TableText(matches[k], channel)]))
    IN  IF ms.text = <<>> THEN ms
        ELSE Converted(MatchesFrom("table", ms.text, 1))

convertMarkdownTables(text, channel) == MConvertTables(Plain(text), channel).text

(***************************************************************************)
(* Telegram MarkdownV2                                                     *)
(***************************************************************************)
Backslash1 == <<T(<<"\\">>, 1)>>

\* the escaping guarded by TELEGRAM_SPECIAL.test(text): test starts at the
\* lastIndex that the call before left and leaves the end of its match
escapeSpecialSticky(ms, lastIndex) ==
    LET Tested(m) ==
            IF m.ok THEN [out |-> MReplace("special", ms, Backslash1, "esc"),
                          lastIndex |-> m.end - 1]
            ELSE [out |-> ms, lastIndex |-> 0]
    IN  Tested(Exec("special", ms.text, lastIndex + 1))

\* token.text.replace(TELEGRAM_SPECIAL, '\\$1') on the module-level regular
\* expression, whose lastIndex is the only state that outlives a call:
\* replace sets lastIndex to 0 before it scans and leaves it at 0
escapeSpecial(ms, lastIndex) ==
    [out |-> MReplace("special", ms, Backslash1, "esc"), lastIndex |-> 0]

\* the target of a link escaped as its text is
escapeHrefFull(ms) == Ins(MReplace("special", ms, Backslash1, "esc").text, "href")

\* url.replace(/([)\\])/g, '\\$1'), the whole target marked "href"
escapeHref(ms) == Ins(MReplace("hrefSpecial", ms, Backslash1, "esc").text, "href")

\* a token: its type, its text (marked) and, for a link, its url
Token(ty, tx, u) == [type |-> ty, text |-> tx, url |-> u]

NoUrl == Ins(<<>>, "href")

TokenOf(ms, m) ==
    CASE m.alt = 1 -> Token("bold", MSlice(ms, m.span[1][1], m.span[1][2]), NoUrl)
      [] m.alt = 2 -> Token("strike", MSlice(ms, m.span[1][1], m.span[1][2]), NoUrl)
      [] m.alt = 3 -> Token("link", MSlice(ms, m.span[1][1], m.span[1][2]),
                                    MSlice(ms, m.span[2][1], m.span[2][2]))
      [] m.alt = 5 -> Token("italic", MSlice(ms, m.span[1][1], m.span[1][2]), NoUrl)
      [] m.alt = 6 -> Token("italic", MSlice(ms, m.span[1][1], m.span[1][2]), NoUrl)
      [] m.alt = 4 -> Token("bare_url", MSlice(ms, m.index, m.end - 1), NoUrl)

TelegramBlockRules ==
    <<Rule("heading", <<T(<<"*", "*">>, 1), T(<<"*", "*">>, 0)>>),
      Rule("rule", <<T(<<>>, 0)>>),
      Rule("bullet", <<T(<<BULLET, " ">>, 0)>>)>>

\* the tokens of transformTelegramText: the block-level rewrites, then the
\* while loop over inlineRegex.exec and the push after it
Tokenize(ms) ==
    LET \* if (inlineMatch.index > lastIdx) tokens.push({ type: 'raw', ... })
        Raw(gap) == IF gap.text = <<>> THEN <<>> ELSE <<Token("raw", gap, NoUrl)>>
        Tokens(working, matches) ==
            IF matches = <<>> THEN Raw(working)
            ELSE Interleave(Array([i \in 1..(Len(matches) + 1) |->
                                      Raw(Gap(working, matches, i))]),
                            Array([k \in 1..Len(matches) |->
                                      TokenOf(working, matches[k])]))
        Working(working) ==
            Last(<<working, Tokens(working, MatchesFrom("inline", working.text, 1))>>)
    IN  Working(ApplyRules(TelegramBlockRules, ms, 1))

\* one case of the switch over token.type
TokenPart(token, escaped) ==
    CASE token.type = "raw"      -> escaped
      [] token.type = "bold"     -> MFlatten(<<Ins(<<"*">>, "ins"), escaped, Ins(<<"*">>, "ins")>>)
      [] token.type = "italic"   -> MFlatten(<<Ins(<<"_">>, "ins"), escaped, Ins(<<"_">>, "ins")>>)
      [] token.type = "strike"   -> MFlatten(<<Ins(<<"~">>, "ins"), escaped, Ins(<<"~">>, "ins")>>)
      [] token.type \in {"bare_url", "link"} ->
            MFlatten(<<Ins(<<"[">>, "ins"), escaped, Ins(<<"]", "(">>, "ins"),
                       escapeHref(IF token.type = "link" THEN token.url ELSE token.text),
                       Ins(<<")">>, "ins")>>)

RECURSIVE RenderTokens(_, _, _)
\* the loop over tokens from token i on; the result carries the lastIndex
\* it leaves.  escaped is computed for every token, and display once more
\* for a bare url
RenderTokens(tokens, i, lastIndex) ==
    LET Rest(part, rest) ==
            Last(<<part, rest, [out |-> MCat(part, rest.out), lastIndex |-> rest.lastIndex]>>)
        Display(display) ==
            Last(<<display,
                   Rest(TokenPart(tokens[i], display.out),
                        RenderTokens(tokens, i + 1, display.lastIndex))>>)
        Escaped(escaped) ==
            Last(<<escaped,
                   Display(IF tokens[i].type = "bare_url"
                           THEN escapeSpecial(tokens[i].text, escaped.lastIndex)
                           ELSE escaped)>>)
    IN  IF i > Len(tokens) THEN [out |-> Ins(<<>>, "ins"), lastIndex |-> lastIndex]
        ELSE Escaped(escapeSpecial(tokens[i].text, lastIndex))

transformTelegramText(ms, lastIndex) == RenderTokens(Tokenize(ms), 1, lastIndex)

\* a segment: its type, its content (marked) and, for a code block, its lang
Segment(ty, c, l) == [type |-> ty, content |-> c, lang |-> l]

NoLang == Ins(<<>>, "code")

\* if (match.index > lastIndex) segments.push({ type: 'text', ... })
TextSegment(gap) == IF gap.text = <<>> THEN <<>> ELSE <<Segment("text", gap, NoLang)>>

\* the while loop over codeBlockRegex.exec and the push after it
CodeSegments(remaining) ==
    LET Segments(matches) ==
            IF matches = <<>> THEN TextSegment(remaining)
            ELSE Interleave(Array([i \in 1..(Len(matches) + 1) |->
                                      TextSegment(Gap(remaining, matches, i))]),
                            Array([k \in 1..Len(matches) |->
                                      Segment("code",
                                              MSlice(remaining, matches[k].span[2][1],
                                                     matches[k].span[2][2]),
                                              MSlice(remaining, matches[k].span[1][1],
                                                     matches[k].span[1][2]))]))
    IN  Segments(MatchesFrom("codeBlock", remaining.text, 1))

\* the while loop over inlineCodeRegex.exec on one text segment
InlineSegments(content) ==
    LET Segments(matches) ==
            IF matches = <<>> THEN TextSegment(content)
            ELSE Interleave(Array([i \in 1..(Len(matches) + 1) |->
                                      TextSegment(Gap(content, matches, i))]),
                            Array([k \in 1..Len(matches) |->
                                      Segment("inline_code",
                                              MSlice(content, matches[k].span[1][1],
                                                     matches[k].span[1][2]),
                                              NoLang)]))
    IN  Segments(MatchesFrom("inlineCode", content.text, 1))

FinalSegments(segments) ==
    Flatten([i \in 1..Len(segments) |->
                IF segments[i].type # "text" THEN <<segments[i]>>
                ELSE InlineSegments(segments[i].content)])

\* segments and finalSegments of formatTelegram
TelegramSegments(text) ==
    LET Segments(segments) == Last(<<segments, FinalSegments(segments)>>)
        Preprocessed(preprocessed) ==
            Last(<<preprocessed, Segments(CodeSegments(preprocessed))>>)
    IN  Preprocessed(MConvertTables(Plain(text), "telegram"))

\* what one segment adds to the output
SegmentPart(seg, lastIndex) ==
    IF seg.type = "code"
    THEN [out |-> MFlatten(<<Ins(<<BT, BT, BT>>, "ins"),
                             Ins(seg.lang.text, "code"),
                             Ins(<<NL>>, "ins"),
                             Ins(seg.content.text, "code"),
                             Ins(<<BT, BT, BT>>, "ins")>>),
          lastIndex |-> lastIndex]
    ELSE IF seg.type = "inline_code"
    THEN [out |-> MFlatten(<<Ins(<<BT>>, "ins"),
                             Ins(seg.content.text, "code"),
                             Ins(<<BT>>, "ins")>>),
          lastIndex |-> lastIndex]
    ELSE transformTelegramText(seg.content, lastIndex)

RECURSIVE RenderSegments(_, _, _)
\* the loop over finalSegments from segment i on
RenderSegments(segs, i, lastIndex) ==
    LET Rest(part, rest) ==
            Last(<<part, rest,
                   [out |-> MCat(part.out, rest.out), lastIndex |-> rest.lastIndex]>>)
        Part(part) == Rest(part, RenderSegments(segs, i + 1, part.lastIndex))
    IN  IF i > Len(segs) THEN [out |-> Ins(<<>>, "ins"), lastIndex |-> lastIndex]
        ELSE Part(SegmentPart(segs[i], lastIndex))

\* String.prototype.trim on a marked string
MTrim(ms) ==
    MSlice(ms, RunEnd(ms.text, 1, SpaceChars, FALSE),
               SetMax({i \in 1..Len(ms.text) : ms.text[i] \notin SpaceChars} \cup {0}))

\* trim() alone, newlines left as they are
MTrimOnly(ms) == MTrim(ms)

\* result.replace(/\n{3,}/g, '\n\n') and trim()
MCollapseAndTrim(ms) ==
    LET Collapsed(collapsed) == Last(<<collapsed, MTrim(collapsed)>>)
    IN  Collapsed(MReplace("newlines", ms, <<T(<<NL, NL>>, 0)>>, "ins"))

CollapseAndTrim(s) == MCollapseAndTrim(Plain(s)).text

formatTelegram(text, lastIndex) ==
    LET Result(result, left) ==
            [text |-> result.text, mark |-> result.mark, lastIndex |-> left]
        Output(output) ==
            Last(<<output, Result(MCollapseAndTrim(output.out), output.lastIndex)>>)
    IN  Output(RenderSegments(TelegramSegments(text), 1, lastIndex))

(***************************************************************************)
(* WhatsApp                                                                *)
(***************************************************************************)
DigitChars == <<"0", "1", "2", "3", "4", "5", "6", "7", "8", "9">>

RECURSIVE Decimal(_)
\* the decimal digits of n >= 0, as a template literal writes a number
Decimal(n) == IF n < 10 THEN <<DigitChars[n + 1]>>
              ELSE Decimal(n \div 10) \o <<DigitChars[(n % 10) + 1]>>

\* `CODEBLOCK${n}ENDBLOCK`
BlockPlaceholder(n) ==
    <<"C","O","D","E","B","L","O","C","K">> \o Decimal(n)
        \o <<"E","N","D","B","L","O","C","K">>

\* `INLINECODE${n}ENDINLINE`
InlinePlaceholder(n) ==
    <<"I","N","L","I","N","E","C","O","D","E">> \o Decimal(n)
        \o <<"E","N","D","I","N","L","I","N","E">>

\* replace(re, callback): the callback pushes the group grp of match k on a
\* list, which had k - 1 elements, and returns the placeholder of that
\* length; the rewritten text and the list
Extract(re, grp, s) ==
    LET Extracted(matches) ==
            IF matches = <<>> THEN [text |-> s, found |-> <<>>]
            ELSE [text  |-> Splice(Plain(s), matches,
                                   Array([k \in 1..Len(matches) |->
                                             Plain(IF re = "codeBlock"
                                                   THEN BlockPlaceholder(k - 1)
                                                   ELSE InlinePlaceholder(k - 1))])).text,
                  found |-> Array([k \in 1..Len(matches) |-> matches[k].g[grp]])]
    IN  Extracted(MatchesFrom(re, s, 1))

\* the replacement text of replace(string, string), scanned left to right:
\* $$ is a dollar sign, $& the matched text, $` the text before the match and
\* $' the text after it.  A "$" opens a pattern when one of these follows it
\* and it is not itself the second character of a pattern, that is, when an
\* even number of "$" comes right before it
GetSubstitution(matched, s, pos, repl) ==
    LET dollars(i) == i - 1 - SetMax({j \in 1..(i - 1) : repl[j] # "$"} \cup {0})
        opens(i)   == /\ i \in 1..(Len(repl) - 1)
                      /\ repl[i] = "$"
                      /\ repl[i + 1] \in {"$", "&", BT, "'"}
                      /\ dollars(i) % 2 = 0
        piece(i)   == IF opens(i)
                      THEN CASE repl[i + 1] = "$" -> <<"$">>
                             [] repl[i + 1] = "&" -> matched
                             [] repl[i + 1] = BT  -> Slice(s, 1, pos - 1)
                             [] repl[i + 1] = "'" -> Slice(s, pos + Len(matched), Len(s))
                      ELSE IF opens(i - 1) THEN <<>>
                      ELSE <<repl[i]>>
    IN  Flatten([i \in 1..Len(repl) |-> piece(i)])

\* String.prototype.replace with a string pattern: the first occurrence only
StringReplace(s, pattern, repl) ==
    LET At1(pos) ==
            IF pos = 0 THEN s
            ELSE Slice(s, 1, pos - 1) \o GetSubstitution(pattern, s, pos, repl)
                 \o Slice(s, pos + Len(pattern), Len(s))
    IN  At1(IndexOfFrom(s, 1, pattern))

RECURSIVE Restore(_, _, _, _)
\* the loops that put the code back, entry i (from 1) having placeholder i-1
Restore(working, found, i, block) ==
    IF i > Len(found) \/ working = <<>> THEN working
    ELSE Restore(
            IF block
            THEN StringReplace(working, BlockPlaceholder(i - 1),
                               <<BT, BT, BT>> \o found[i] \o <<BT, BT, BT>>)
            ELSE StringReplace(working, InlinePlaceholder(i - 1),
                               <<BT>> \o found[i] \o <<BT>>),
            found, i + 1, block)

\* the code blocks, then the inline codes, taken out of the text
WhatsAppExtract(text) ==
    LET Inline(codeBlocks, inlineCodes) ==
            Last(<<inlineCodes,
                   [working |-> inlineCodes.text, codeBlocks |-> codeBlocks.found,
                    inlineCodes |-> inlineCodes.found]>>)
        Blocks(codeBlocks) ==
            Last(<<codeBlocks,
                   Inline(codeBlocks, Extract("inlineCode", 1, codeBlocks.text))>>)
    IN  Blocks(Extract("codeBlock", 2, text))

WhatsAppRules ==
    <<Rule("heading", <<T(<<"*">>, 1), T(<<"*">>, 0)>>),
      Rule("rule", <<T(<<>>, 0)>>),
      Rule("bullet", <<T(<<BULLET, " ">>, 0)>>),
      Rule("bold", <<T(<<"*">>, 1), T(<<"*">>, 0)>>),
      Rule("strike", <<T(<<"~">>, 1), T(<<"~">>, 0)>>),
      Rule("link", <<T(<<>>, 1), T(<<" ", "(">>, 2), T(<<")">>, 0)>>)>>

\* the rewrites of formatWhatsApp between extraction and restoration
WhatsAppRewrites(text) ==
    LET Converted(converted) ==
            Last(<<converted, ApplyRules(WhatsAppRules, converted, 1).text>>)
    IN  Converted(MConvertTables(Plain(text), "whatsapp"))

formatWhatsApp(text) ==
    LET Restored(restored) == Last(<<restored, CollapseAndTrim(restored)>>)
        Inlined(x, inlined) ==
            Last(<<inlined, Restored(Restore(inlined, x.codeBlocks, 1, TRUE))>>)
        Rewritten(x, working) ==
            Last(<<working, Inlined(x, Restore(working, x.inlineCodes, 1, FALSE))>>)
        TakenOut(x) == Last(<<x, Rewritten(x, WhatsAppRewrites(x.working))>>)
    IN  TakenOut(WhatsAppExtract(text))

(***************************************************************************)
(* Plaintext                                                               *)
(***************************************************************************)
PlaintextRules ==
    <<Rule("codeBlock", <<T(<<>>, 2)>>),
      Rule("inlineCode", Group1),
      Rule("headingMarker", <<T(<<>>, 0)>>),
      Rule("rule", <<T(<<>>, 0)>>),
      Rule("bold", Group1),
      Rule("italicStar", Group1),
      Rule("italicUnder", Group1),
      Rule("strike", Group1),
      Rule("link", Group1),
      Rule("bullet", <<T(<<BULLET, " ">>, 0)>>)>>

stripMarkdown(text) ==
    LET Rewritten(result) == Last(<<result, CollapseAndTrim(result.text)>>)
        Converted(converted) ==
            Last(<<converted, Rewritten(ApplyRules(PlaintextRules, converted, 1))>>)
    IN  Converted(MConvertTables(Plain(text), "plaintext"))

(***************************************************************************)
(* Main formatting and the plugin hook                                     *)
(***************************************************************************)
\* values of the language that the entry points take and return
Str(s) == [kind |-> "string", text |-> s, parseMode |-> ""]

Undefined == [kind |-> "undefined", text |-> <<>>, parseMode |-> ""]

WithParseMode(s, mode) == [kind |-> "object", text |-> s, parseMode |-> mode]

TypeError == [kind |-> "TypeError", text |-> <<>>, parseMode |-> ""]

\* !text
Falsy(v) == v.kind = "undefined" \/ (v.kind = "string" /\ v.text = <<>>)

\* what a call leaves: the value it returns (or the error it throws), the
\* marks of the text when the strict pipeline made it, the pipeline that ran
\* and TELEGRAM_SPECIAL.lastIndex
Outcome(v, m, ran, li) == [value |-> v, mark |-> m, pipeline |-> ran, lastIndex |-> li]

\* the outcome of a call that returns what formatTelegram returned
TelegramOutcome(r) == Outcome(Str(r.text), r.mark, "telegram", r.lastIndex)

\* formatMarkdown without the line of the passthrough channel
formatMarkdownNoPassthrough(text, channel, lastIndex) ==
    IF Falsy(text) THEN Outcome(text, <<>>, "none", lastIndex)
    ELSE IF channel = "telegram"
    THEN TelegramOutcome(formatTelegram(text.text, lastIndex))
    ELSE IF channel = "whatsapp"
    THEN Outcome(Str(formatWhatsApp(text.text)), <<>>, "whatsapp", lastIndex)
    ELSE Outcome(Str(stripMarkdown(text.text)), <<>>, "plaintext", lastIndex)

formatMarkdown(text, channel, lastIndex) ==
    IF Falsy(text) THEN Outcome(text, <<>>, "none", lastIndex)
    ELSE IF channel = "discord" THEN Outcome(text, <<>>, "none", lastIndex)
    ELSE IF channel = "telegram"
    THEN TelegramOutcome(formatTelegram(text.text, lastIndex))
    ELSE IF channel = "whatsapp"
    THEN Outcome(Str(formatWhatsApp(text.text)), <<>>, "whatsapp", lastIndex)
    ELSE Outcome(Str(stripMarkdown(text.text)), <<>>, "plaintext", lastIndex)

\* the hook without its branch for telegram
transformOutgoingNoMetadata(message, channel, lastIndex) ==
    formatMarkdown(message, channel, lastIndex)

\* hooks.transformOutgoing(message, ctx) with ctx.channel = channel; with an
\* absent message the first text.replace of the strict pipeline throws
transformOutgoing(message, channel, lastIndex) ==
    LET Wrapped(r) ==
            Outcome(WithParseMode(r.text, "MarkdownV2"), r.mark, "telegram", r.lastIndex)
    IN  IF channel = "telegram"
        THEN IF message.kind # "string" THEN Outcome(TypeError, <<>>, "telegram", lastIndex)
             ELSE Wrapped(formatTelegram(message.text, lastIndex))
        ELSE formatMarkdown(message, channel, lastIndex)

\* the tables that the pipeline converts, in order.  For each: where it
\* lies in the text handed to convertMarkdownTables (the text itself, on
\* whatsapp the text with the code taken out), whether that place is inside
\* a fenced code block of this text, its parts and what it is rendered as
ConvertedTables(text, pipeline) ==
    LET Table(m, t, blocks) ==
            [index |-> m.index, end |-> m.end,
             inCode |-> \E k \in 1..Len(blocks) :
                           blocks[k].index < m.index /\ m.end <= blocks[k].end,
             headers |-> t.headers, bodyRows |-> t.bodyRows, aligns |-> t.aligns,
             colWidths |-> IF pipeline = "telegram" THEN BoxTable(t).colWidths ELSE <<>>,
             lines |-> IF pipeline = "telegram" THEN BoxTable(t).lines ELSE Cards(t)]
        Each(found, blocks) ==
            Array([i \in 1..Len(found) |->
                      Table(found[i], TableModel(found[i]), blocks)])
        In(input) ==
            Each(MatchesFrom("table", input, 1), MatchesFrom("codeBlock", input, 1))
    IN  In(IF pipeline = "whatsapp" THEN WhatsAppExtract(text).working ELSE text)

(***************************************************************************)
(* The calls of the two exported entry points                              *)
(***************************************************************************)
VARIABLES message, channel, entry, pc, result, mark, pipeline, tables,
          lastIndex, calls, scan, game

vars == <<message, channel, entry, pc, result, mark, pipeline, tables,
          lastIndex, calls, scan, game>>

\* ctx.channel: the passthrough channel, the strict channel, the loose
\* channel and one of the channels that fall to the default
Channels == {"discord", "telegram", "whatsapp", "plaintext"}

MaxFragments == 3

\* pieces of markdown that the messages are put together from
Fragments ==
    << <<BT, BT, BT, NL>>,
       <<"|", "a", "|", NL, "|", "-", "|", NL, "|", "b", "|", NL>>,
       <<"*", "*", "x", "*", "*">>,
       <<"#", " ">>,
       <<"a">>,
       <<".">>,
       <<NL>> >>

\* every text of at most MaxFragments pieces, the empty text and no text
TextMessages ==
    {Undefined, Str(<<>>)} \cup
    UNION {{Str(Flatten([i \in 1..k |-> Fragments[f[i]]])) :
               f \in [1..k -> 1..Len(Fragments)]} : k \in 1..MaxFragments}

MaxCols == 3

\* lengths of the cells of the small tables
CellLens == {1, 3, 58}

\* numbers of columns and cell lengths of the wide tables
WideCols == {12, 20}

WideLens == {0, 1, 5}

\* "|" cell "|" cell "|" ...
RowSource(cells) == <<"|">> \o Flatten([i \in 1..Len(cells) |-> cells[i] \o <<"|">>])

\* a table of one body row as markdown source
TableSource(headers, row) ==
    Flatten(<<RowSource(headers), <<NL>>,
              RowSource([i \in 1..Len(headers) |-> <<"-">>]), <<NL>>,
              RowSource(row)>>)

\* tables of at most MaxCols columns whose body row has one cell less than,
\* as many cells as or one cell more than the header, and wide tables
TableMessages ==
    UNION {{Str(TableSource([i \in 1..n |-> Repeat("h", hs[i])],
                            [i \in 1..k |-> Repeat("b", b)])) :
               hs \in [1..n -> CellLens], b \in CellLens,
               k \in {j \in {n - 1, n, n + 1} : j >= 1}} : n \in 1..MaxCols}
    \cup {Str(TableSource([i \in 1..n |-> Repeat("h", l)],
                          [i \in 1..n |-> Repeat("b", l)])) :
             n \in WideCols, l \in WideLens}

MaxCalls == 2

\* the texts of the sequences of calls
CallMessages ==
    {Str(<<"a", ".">>), Str(<<"*", "*", "x", "*", "*", "!">>), Str(<<"a">>)}

\* no enemy: the null of targetEnemy
Null == 0

\* the page of the visualization has just run its script: the variables of
\* the script that the states, the enemies and the shots depend on.  An
\* enemy is [id, hp], its id the number of the spawnEnemy call that made
\* it (the identity of the object); bullets is the number of shots in
\* flight; spawned is the number of spawnEnemy calls so far
PageLoaded ==
    [currentState |-> "idle", stateTime |-> 0, fireTimer |-> 0,
     targetEnemy |-> Null, enemies |-> <<>>, bullets |-> 0, spawned |-> 0]

\* the module has just been loaded, a caller holds its arguments and the
\* page of the visualization has just been opened
InitWith(messages) ==
    /\ message \in messages
    /\ channel \in Channels
    /\ entry = "none"
    /\ pc = "ready"
    /\ result = Undefined
    /\ mark = <<>>
    /\ pipeline = "none"
    /\ tables = <<>>
    /\ lastIndex = 0
    /\ calls = <<>>
    /\ scan = [loop |-> "none", texts |-> <<>>, cursor |-> 0, execs |-> 0]
    /\ game = PageLoaded

Init == InitWith(TextMessages)

InitTables == InitWith(TableMessages)

InitCalls == InitWith(CallMessages)

\* the call returns (or throws) and leaves TELEGRAM_SPECIAL.lastIndex
Return(name, o) ==
    /\ pc' = "done"
    /\ entry' = name
    /\ result' = o.value
    /\ mark' = o.mark
    /\ pipeline' = o.pipeline
    /\ tables' = IF o.pipeline = "none" \/ o.value.kind = "TypeError" THEN <<>>
                 ELSE ConvertedTables(message.text, o.pipeline)
    /\ lastIndex' = o.lastIndex
    /\ calls' = Append(calls, [entry |-> name, message |-> message,
                               channel |-> channel, result |-> o.value])
    /\ UNCHANGED <<message, channel, scan, game>>

CallFormatMarkdown ==
    /\ pc = "ready"
    /\ Return("formatMarkdown", formatMarkdown(message, channel, lastIndex))

CallTransformOutgoing ==
    /\ pc = "ready"
    /\ Return("transformOutgoing", transformOutgoing(message, channel, lastIndex))

\* the caller goes on to its next message
NextMessage ==
    /\ pc = "done"
    /\ Len(calls) < MaxCalls
    /\ message' \in CallMessages
    /\ channel' \in Channels
    /\ pc' = "ready"
    /\ UNCHANGED <<entry, result, mark, pipeline, tables, lastIndex, calls, scan, game>>

Next == CallFormatMarkdown \/ CallTransformOutgoing

NextCalls == CallFormatMarkdown \/ CallTransformOutgoing \/ NextMessage

Spec == Init /\ [][Next]_vars

SpecTables == InitTables /\ [][Next]_vars

SpecCalls == InitCalls /\ [][NextCalls]_vars

\* every text of at most n pieces of the list
Composed(fragments, n) ==
    UNION {{Str(Flatten([i \in 1..k |-> fragments[f[i]]])) :
               f \in [1..k -> 1..Len(fragments)]} : k \in 1..n}

\* pieces of texts with code spans and with the words that formatWhatsApp
\* uses as placeholders
PlaceholderFragments ==
    << BlockPlaceholder(0),
       InlinePlaceholder(0),
       <<BT, BT, BT, NL, "c", BT, BT, BT>>,
       <<BT, "d", BT>>,
       <<BT, "$", "&", BT>>,
       <<" ">> >>

SpecPlaceholders ==
    InitWith(Composed(PlaceholderFragments, MaxFragments)) /\ [][Next]_vars

MaxLines == 5

\* lines of pipe tables: a row of one cell, a separator row, an empty line
ShapeFragments ==
    << <<"|", "a", "|", NL>>,
       <<"|", "-", "|", NL>>,
       <<NL>> >>

SpecShapes == InitWith(Composed(ShapeFragments, MaxLines)) /\ [][Next]_vars

\* pieces of texts with the inline forms of inlineRegex and a bullet marker
InlineFragments ==
    << <<"*", "*", "b", "*", "*">>,
       <<"*", "i", "*">>,
       <<"_", "i", "_">>,
       <<"~", "~", "s", "~", "~">>,
       <<"[", "t", ".", "]", "(", "u", "\\", ")">>,
       <<"h", "t", "t", "p", ":", "/", "/", "a", ".", "b">>,
       <<"*", " ">>,
       <<"x">>,
       <<NL>> >>

SpecInline == InitWith(Composed(InlineFragments, MaxFragments)) /\ [][Next]_vars

\* separator cells of the four alignments
SeparatorCells ==
    << <<":", "-", "-">>, <<"-", "-", "-">>, <<"-", "-", ":">>, <<":", "-", ":">> >>

\* tables of at most MaxCols columns with every choice of separator cells,
\* header cells of 1, 2 or 4 characters and body cells of 4
SpecAlign ==
    InitWith(UNION {{Str(Flatten(<<RowSource([i \in 1..n |-> Repeat("h", l)]), <<NL>>,
                                   RowSource([i \in 1..n |-> SeparatorCells[f[i]]]), <<NL>>,
                                   RowSource([i \in 1..n |-> Repeat("b", 4)])>>)) :
                        f \in [1..n -> 1..Len(SeparatorCells)], l \in {1, 2, 4}} :
                       n \in 1..MaxCols})
        /\ [][Next]_vars

(***************************************************************************)
(* The scanning loops of formatTelegram, one call of exec at a time        *)
(***************************************************************************)
\* pieces of texts with fences, inline code and bold
ScanFragments ==
    << <<BT, BT, BT>>,
       <<BT, "c", BT>>,
       <<"*", "*", "x", "*", "*">>,
       <<"a">>,
       <<NL>> >>

\* formatTelegram is entered: the tables are converted and the loop over
\* codeBlockRegex starts on the converted text.  scan holds the regular
\* expression of the loops that run, the texts that these loops scan (the
\* first is the one being scanned), the position that exec starts from and
\* the number of calls of exec so far
StartScan ==
    /\ pc = "ready"
    /\ channel = "telegram"
    /\ pc' = "scanning"
    /\ scan' = [loop |-> "codeBlock",
                texts |-> <<convertMarkdownTables(message.text, "telegram")>>,
                cursor |-> 1,
                execs |-> 0]
    /\ UNCHANGED <<message, channel, entry, result, mark, pipeline, tables,
                   lastIndex, calls, game>>

\* the loop with a regular expression that has no g flag: exec finds a
\* match and leaves the position at the start of the text
ScanMatchNoGlobalFlag ==
    /\ pc = "scanning"
    /\ scan.texts # <<>>
    /\ LET Found(m) == m.ok /\ scan' = [scan EXCEPT !.cursor = 1,
                                                    !.execs = scan.execs + 1]
       IN  Found(Exec(scan.loop, Head(scan.texts), scan.cursor))
    /\ UNCHANGED <<message, channel, entry, pc, result, mark, pipeline, tables,
                   lastIndex, calls, game>>

\* while ((match = regex.exec(text)) !== null): exec finds the leftmost
\* match from the position it was left at and leaves the end of the match
ScanMatch ==
    /\ pc = "scanning"
    /\ scan.texts # <<>>
    /\ LET Found(m) == m.ok /\ scan' = [scan EXCEPT !.cursor = m.end,
                                                    !.execs = scan.execs + 1]
       IN  Found(Exec(scan.loop, Head(scan.texts), scan.cursor))
    /\ UNCHANGED <<message, channel, entry, pc, result, mark, pipeline, tables,
                   lastIndex, calls, game>>

\* exec returns null: the loop over this text ends and the next text is
\* scanned from its start
ScanEnd ==
    /\ pc = "scanning"
    /\ scan.texts # <<>>
    /\ LET NotFound(m) ==
               ~m.ok /\ scan' = [scan EXCEPT !.texts = Tail(scan.texts), !.cursor = 1,
                                             !.execs = scan.execs + 1]
       IN  NotFound(Exec(scan.loop, Head(scan.texts), scan.cursor))
    /\ UNCHANGED <<message, channel, entry, pc, result, mark, pipeline, tables,
                   lastIndex, calls, game>>

\* the loops of one kind are over: after codeBlockRegex, inlineCodeRegex on
\* the text segments; after it, inlineRegex on the text segments that are
\* left, each after the rewrites of its headings, rules and bullets
NextLoop ==
    /\ pc = "scanning"
    /\ scan.texts = <<>>
    /\ scan.loop # "inline"
    /\ LET Texts(segments) == SelectSeq(segments, LAMBDA seg : seg.type = "text")
           Contents(segments) ==
               Array([k \in 1..Len(segments) |-> segments[k].content.text])
           Workings(segments) ==
               Array([k \in 1..Len(segments) |->
                         ApplyRules(TelegramBlockRules, segments[k].content, 1).text])
       IN  scan' = IF scan.loop = "codeBlock"
                   THEN [loop |-> "inlineCode",
                         texts |-> Contents(Texts(CodeSegments(
                                       MConvertTables(Plain(message.text), "telegram")))),
                         cursor |-> 1,
                         execs |-> scan.execs]
                   ELSE [loop |-> "inline",
                         texts |-> Workings(Texts(TelegramSegments(message.text))),
                         cursor |-> 1,
                         execs |-> scan.execs]
    /\ UNCHANGED <<message, channel, entry, pc, result, mark, pipeline, tables,
                   lastIndex, calls, game>>

\* the last loop is over: the parts are joined and formatTelegram returns
FinishScan ==
    /\ pc = "scanning"
    /\ scan.texts = <<>>
    /\ scan.loop = "inline"
    /\ Return("formatMarkdown", formatMarkdown(message, channel, lastIndex))

NextScan == StartScan \/ ScanMatch \/ ScanEnd \/ NextLoop \/ FinishScan

\* a caller holds a text for telegram
InitScan == InitWith(Composed(ScanFragments, MaxFragments)) /\ channel = "telegram"

SpecScan == InitScan /\ [][NextScan]_vars

(***************************************************************************)
(* The page of the geometry-wars visualization: one handler at a time      *)
(***************************************************************************)
MaxSpawned == 4

MaxBullets == 1

\* ev.type of the events that the page tells apart, of an event that it
\* does not, and data that JSON.parse rejects
EventTypes ==
    {"message_received", "agent_routed", "response_ready", "chain_step_start",
     "team_chain_start", "team_chain_end", "chain_step_done", "unparsable"}

\* dt of a frame: about two frame times, and a pause of the page
Dts == {2, 30}

\* a timer after dt more; it is only ever compared with constants below
\* most, so the times beyond most are not told apart
Later(timer, dt, most) == IF timer + dt > most THEN most + 1 ELSE timer + dt

\* the ids of the enemies of the list
Ids(enemies) == {enemies[i].id : i \in DOMAIN enemies}

\* one more enemy at the end of the list, with hp 1 (its type and its place
\* on the border are not modelled)
spawnEnemy(g) ==
    [g EXCEPT !.enemies = Append(@, [id |-> g.spawned + 1, hp |-> 1]),
              !.spawned = @ + 1]

\* the enemy at the least distance from the ship, null for an empty list.
\* The places of the ship and of the enemies are not modelled: the results
\* that some places give
findNearestEnemy(enemies) == IF enemies = <<>> THEN {Null} ELSE Ids(enemies)

\* setState without the clearing of enemies and targetEnemy on 'speaking'
setStateKeepsEnemies(g, s) ==
    LET Entered(e) ==
            CASE s = "listening" ->
                     LET Spawned[i \in 0..4] ==
                             IF i = 0 THEN e ELSE spawnEnemy(Spawned[i - 1])
                     IN  {Spawned[count] :
                             count \in {c \in 2..4 : e.spawned + c <= MaxSpawned}}
              [] s = "thinking" ->
                     {[e EXCEPT !.targetEnemy = t, !.fireTimer = 0] :
                         t \in findNearestEnemy(e.enemies)}
              [] OTHER -> {e}
    IN  IF s = g.currentState THEN {g}
        ELSE Entered([g EXCEPT !.currentState = s, !.stateTime = 0])

\* the states that setState(s) can leave, one for each outcome of
\* Math.random and of the distances
setState(g, s) ==
    LET Entered(e) ==
            CASE s = "listening" ->
                     LET Spawned[i \in 0..4] ==
                             IF i = 0 THEN e ELSE spawnEnemy(Spawned[i - 1])
                     IN  {Spawned[count] :
                             count \in {c \in 2..4 : e.spawned + c <= MaxSpawned}}
              [] s = "thinking" ->
                     {[e EXCEPT !.targetEnemy = t, !.fireTimer = 0] :
                         t \in findNearestEnemy(e.enemies)}
              [] s = "speaking" ->
                     {[e EXCEPT !.enemies = <<>>, !.targetEnemy = Null]}
              [] OTHER -> {e}
    IN  IF s = g.currentState THEN {g}
        ELSE Entered([g EXCEPT !.currentState = s, !.stateTime = 0])

\* the shots move: some leave the field or hit an asteroid (out of them),
\* each of the others that hits takes one hp of an enemy, and an enemy
\* without hp leaves the list
updateBullets(g) ==
    LET Hit(hits, out) ==
            [g EXCEPT !.enemies =
                          SelectSeq([i \in DOMAIN g.enemies |->
                                        IF i \in hits
                                        THEN [g.enemies[i] EXCEPT !.hp = @ - 1]
                                        ELSE g.enemies[i]],
                                    LAMBDA e : e.hp > 0),
                      !.bullets = @ - Cardinality(hits) - out]
    IN  UNION {{Hit(hits, out) : out \in 0..(g.bullets - Cardinality(hits))} :
                  hits \in {h \in SUBSET DOMAIN g.enemies :
                               Cardinality(h) <= g.bullets}}

\* sse.onmessage: an event of the server arrives
onmessage ==
    /\ \E type \in EventTypes :
           game' \in
               CASE type = "message_received" -> setState(game, "listening")
                 [] type = "agent_routed" -> setState(game, "thinking")
                 [] type \in {"response_ready", "team_chain_end"} ->
                        setState(game, "speaking")
                 [] type \in {"chain_step_start", "team_chain_start"} ->
                        setState(game, "collaborating")
                 [] OTHER -> {game}
    /\ UNCHANGED <<message, channel, entry, pc, result, mark, pipeline, tables,
                   lastIndex, calls, scan>>

\* frame: one animation frame, dt after the last one.  The mining of the
\* idle state, the ship, the grid and the drawing do not touch the state
\* that is modelled
frame ==
    /\ \E dt \in Dts :
           LET Retarget(x) ==
                   IF x.targetEnemy # Null /\ x.targetEnemy \notin Ids(x.enemies)
                   THEN {[x EXCEPT !.targetEnemy = t] :
                             t \in findNearestEnemy(x.enemies)}
                   ELSE {x}
               Acquire(x) ==
                   IF x.targetEnemy = Null
                   THEN {[x EXCEPT !.targetEnemy = t] :
                             t \in findNearestEnemy(x.enemies)}
                   ELSE {x}
               Fire(x) ==
                   IF x.targetEnemy # Null /\ x.fireTimer > 25
                   THEN IF x.bullets < MaxBullets
                        THEN {[x EXCEPT !.fireTimer = 0, !.bullets = @ + 1]}
                        ELSE {}
                   ELSE {x}
               Timed(x) == [x EXCEPT !.fireTimer = Later(@, dt, 25)]
               Listening(x) ==
                   IF x.currentState = "listening" /\ x.stateTime > 90
                   THEN setState(x, "thinking")
                   ELSE {x}
               Done(x) ==
                   IF x.enemies = <<>> /\ x.stateTime > 30
                   THEN setState(x, "speaking")
                   ELSE {x}
               Thinking(x) ==
                   IF x.currentState = "thinking"
                   THEN UNION {Done(z) :
                           z \in UNION {Fire(y) : y \in Retarget(Timed(x))}}
                   ELSE {x}
               Speaking(x) ==
                   IF x.currentState = "speaking" /\ x.stateTime > 120
                   THEN setState(x, "idle")
                   ELSE {x}
               Wave(x) ==
                   IF x.stateTime < 3
                   THEN {x} \cup (IF x.spawned < MaxSpawned
                                  THEN {spawnEnemy(x)} ELSE {})
                   ELSE {x}
               Collaborating(x) ==
                   IF x.currentState = "collaborating"
                   THEN UNION {Fire(z) :
                           z \in UNION {Acquire(y) :
                               y \in UNION {Retarget(Timed(w)) : w \in Wave(x)}}}
                   ELSE {x}
               Updated ==
                   updateBullets([game EXCEPT !.stateTime = Later(@, dt, 120)])
           IN  game' \in
                   UNION {Collaborating(d) :
                       d \in UNION {Speaking(c) :
                           c \in UNION {Thinking(b) :
                               b \in UNION {Listening(a) : a \in Updated}}}}
    /\ UNCHANGED <<message, channel, entry, pc, result, mark, pipeline, tables,
                   lastIndex, calls, scan>>

NextGame == onmessage \/ frame

\* nothing is being formatted while the page runs
InitGame == InitWith({Undefined}) /\ channel = "discord"

SpecGame == InitGame /\ [][NextGame]_vars

(***************************************************************************)
(* Properties                                                              *)
(***************************************************************************)
\* C1: on the passthrough channel both entry points return their text
\* itself, character for character
C1_PassthroughIdentity ==
    (pc = "done" /\ channel = "discord") => result = message

\* a heading in bold went through the hook on the passthrough channel
C1_Witness ==
    /\ pc = "done"
    /\ channel = "discord"
    /\ entry = "transformOutgoing"
    /\ message = Str(<<"#", " ", "*", "*", "x", "*", "*">>)
    /\ result = message

\* C2: on telegram, whatsapp and plaintext the content of every terminated
\* fenced code block of the input appears unchanged in the output
C2_FencedContentPreserved ==
    (pc = "done" /\ pipeline # "none" /\ result.kind # "TypeError") =>
        LET blocks == MatchesFrom("codeBlock", message.text, 1)
            occurs(content) ==
                \E p \in 1..(Len(result.text) + 1) :
                    StartsWithAt(result.text, p, content)
        IN  \A k \in 1..Len(blocks) : occurs(blocks[k].g[2])

\* C3: in the telegram output every reserved character that comes from
\* plain text is preceded by exactly one backslash of the escaping, and no
\* character that the renderer inserted is escaped
C3_EscapesTextOnly ==
    (pc = "done" /\ pipeline = "telegram" /\ result.kind # "TypeError") =>
        \A i \in 1..Len(result.text) :
            /\ (mark[i] = "text" /\ result.text[i] \in TELEGRAM_SPECIAL) =>
                   (i > 1 /\ mark[i - 1] = "esc")
            /\ mark[i] = "ins" => (i = 1 \/ mark[i - 1] # "esc")

\* C4 as stated: the box of every table converted on telegram is at most
\* TELEGRAM_TABLE_MAX_WIDTH characters wide
C4_WidthBound ==
    (pc = "done" /\ pipeline = "telegram") =>
        \A k \in 1..Len(tables) :
            (\A c \in 1..Len(tables[k].colWidths) : ~tables[k].colWidths[c].nan) =>
                Sum([c \in 1..Len(tables[k].colWidths) |-> tables[k].colWidths[c].v])
                    + Overhead(Len(tables[k].headers)) <= TELEGRAM_TABLE_MAX_WIDTH

\* C4: the box of a table converted on telegram is at most
\* TELEGRAM_TABLE_MAX_WIDTH characters wide when the table fits unscaled or
\* when the proportional share of every column is at least the minimum of 2
C4_WidthBoundWhenSharesFit ==
    (pc = "done" /\ pipeline = "telegram") =>
        \A k \in 1..Len(tables) :
            LET t         == tables[k]
                natural   == NaturalWidths(t.headers, t.bodyRows)
                total     == Sum(natural)
                overhead  == Overhead(Len(t.headers))
                available == TELEGRAM_TABLE_MAX_WIDTH - overhead
                fits      == total + overhead <= TELEGRAM_TABLE_MAX_WIDTH
                sharesFit == /\ total > 0
                             /\ \A c \in 1..Len(natural) :
                                    FloorShare(natural[c], total, available) >= 2
            IN  (fits \/ sharesFit) =>
                    /\ \A c \in 1..Len(t.colWidths) : ~t.colWidths[c].nan
                    /\ Sum([c \in 1..Len(t.colWidths) |-> t.colWidths[c].v]) + overhead
                          <= TELEGRAM_TABLE_MAX_WIDTH
                    /\ Len(t.lines[1]) =
                          Sum([c \in 1..Len(t.colWidths) |-> t.colWidths[c].v]) + overhead

\* two columns of 58 characters were scaled to 26 each, a box of 59
C4_Witness ==
    /\ pc = "done"
    /\ pipeline = "telegram"
    /\ Len(tables) = 1
    /\ NaturalWidths(tables[1].headers, tables[1].bodyRows) = <<58, 58>>
    /\ tables[1].colWidths = <<Num(26), Num(26)>>
    /\ Len(tables[1].lines[1]) = 59

\* C5: on inputs without code spans a second plaintext rendering changes
\* nothing
C5_PlaintextIdempotent ==
    (pc = "done" /\ pipeline = "plaintext" /\ \A i \in 1..Len(message.text) :
                                                 message.text[i] # BT) =>
        stripMarkdown(result.text) = result.text

\* C6: an empty or absent text comes back unchanged on every channel, no
\* pipeline having run and no error thrown
C6_EmptyUnchanged ==
    (pc = "done" /\ Falsy(message)) =>
        /\ result.kind # "TypeError"
        /\ result.text = message.text
        /\ pipeline = "none"

\* C7: off the passthrough channel no table that is converted lies inside a
\* fenced code block of the text
C7_CodeBeforeTables ==
    (pc = "done" /\ pipeline # "none") =>
        \A k \in 1..Len(tables) : ~tables[k].inCode

\* C8: two calls of the same entry point with the same text and channel
\* return the same value whatever was called in between, and no match
\* position of TELEGRAM_SPECIAL outlives a call
C8_SameArgumentsSameResult ==
    /\ lastIndex = 0
    /\ \A i, j \in 1..Len(calls) :
          (/\ calls[i].entry = calls[j].entry
           /\ calls[i].message = calls[j].message
           /\ calls[i].channel = calls[j].channel) => calls[i].result = calls[j].result

\* the same text with a reserved character was rendered twice on telegram
C8_Witness ==
    /\ Len(calls) = 2
    /\ calls[1].entry = calls[2].entry
    /\ calls[1].channel = "telegram"
    /\ calls[2].channel = "telegram"
    /\ calls[1].message = Str(<<"a", ".">>)
    /\ calls[2].message = Str(<<"a", ".">>)
    /\ calls[2].result.text = <<"a", "\\", ".">>

\* C9: every body row of a rendered table has as many cells as the header,
\* in the box of telegram and in the cards
C9_RowsHaveHeaderCells ==
    (pc = "done" /\ pipeline # "none") =>
        \A k \in 1..Len(tables) :
            LET t == tables[k]
                count(line, c) == Cardinality({p \in 1..Len(line) : line[p] = c})
            IN  IF pipeline = "telegram"
                THEN \A r \in 1..Len(t.bodyRows) :
                        count(t.lines[3 + r], BOX.v) - 1 = Len(t.headers)
                ELSE \A r \in 1..Len(t.lines) :
                        count(t.lines[r], NL) + 1 = Len(t.headers)

SetAside(re, grp, s) ==
    LET Extracted(matches) ==
            IF matches = <<>> THEN [text |-> s, found |-> <<>>]
            ELSE [text  |-> Splice(Plain(s), matches,
                                   Array([k \in 1..Len(matches) |->
                                             Plain(<<re \o ToString(k)>>)])).text,
                  found |-> Array([k \in 1..Len(matches) |-> matches[k].g[grp]])]
    IN  Extracted(MatchesFrom(re, s, 1))

\* every character that stands for a group replaced by the group between
\* fences, as it is, and every other character kept
PutBack(re, working, found, fence) ==
    LET Piece(c, ks) == IF ks = {} THEN <<c>>
                        ELSE fence \o found[SetMin(ks)] \o fence
    IN  IF working = <<>> THEN <<>>
        ELSE Flatten([i \in 1..Len(working) |->
                         Piece(working[i],
                               {k \in 1..Len(found) : working[i] = re \o ToString(k)})])

\* the rewrites of formatWhatsApp around code that is set aside exactly
WhatsAppExact(text) ==
    LET Inlined(blocks, inlined) ==
            CollapseAndTrim(PutBack("codeBlock", inlined, blocks.found, <<BT, BT, BT>>))
        Rewritten(blocks, inlines, working) ==
            Last(<<working, Inlined(blocks, PutBack("inlineCode", working,
                                                    inlines.found, <<BT>>))>>)
        Inline(blocks, inlines) ==
            Last(<<inlines, Rewritten(blocks, inlines, WhatsAppRewrites(inlines.text))>>)
        Blocks(blocks) ==
            Last(<<blocks, Inline(blocks, SetAside("inlineCode", 1, blocks.text))>>)
    IN  Blocks(SetAside("codeBlock", 2, text))

\* C11: on whatsapp every code span taken out comes back once, where it was
\* taken from, and nothing but a placeholder that the extraction wrote is
\* replaced by code: the output is the one that the same rewrites give when
\* code is set aside behind characters that no document holds
C11_PlaceholdersNeverCollide ==
    (pc = "done" /\ pipeline = "whatsapp") => result.text = WhatsAppExact(message.text)

\* C12: for a text, the hook returns the output of the telegram pipeline
\* together with parseMode 'MarkdownV2' when the channel is telegram, and
\* on every other channel the plain string that formatMarkdown returns
C12_MetadataOnTelegramOnly ==
    (pc = "done" /\ entry = "transformOutgoing" /\ message.kind = "string") =>
        IF channel = "telegram"
        THEN result = WithParseMode(formatTelegram(message.text, 0).text, "MarkdownV2")
        ELSE /\ result.kind = "string"
             /\ result.parseMode = ""
             /\ result = formatMarkdown(message, channel, 0).value

\* the hook returned a bold text for telegram, with the parse mode
C12_Witness ==
    /\ pc = "done"
    /\ entry = "transformOutgoing"
    /\ channel = "telegram"
    /\ message = Str(<<"*", "*", "x", "*", "*", ".">>)
    /\ result = WithParseMode(<<"*", "x", "*", "\\", ".">>, "MarkdownV2")

\* C13: every block that the table stage rewrites is a header line of
\* pipe-delimited cells, one separator line of pipes, dashes, colons and
\* blanks, and one or more body rows, on contiguous lines (so a text
\* without such a block comes back from convertMarkdownTables unchanged)
C13_OnlyShapedBlocksRewritten ==
    (pc = "done" /\ pipeline # "none") =>
        LET input == IF pipeline = "whatsapp" THEN WhatsAppExtract(message.text).working
                     ELSE message.text
            row(l) == Len(l) >= 3 /\ l[1] = "|" /\ l[Len(l)] = "|"
            separator(l) == row(l) /\ \A i \in 1..Len(l) : l[i] \in SeparatorClass
            shaped(ls) == /\ Len(ls) >= 3
                          /\ row(ls[1])
                          /\ separator(ls[2])
                          /\ \A j \in 3..Len(ls) : row(ls[j])
        IN  \A k \in 1..Len(tables) :
                shaped(Split(TrimEnd(Slice(input, tables[k].index, tables[k].end - 1)), NL))

\* C14: when the text has a fence and no fenced block that is closed, no
\* code segment and no placeholder is made from the text: on telegram every
\* code block found after the table stage lies wholly in what the table
\* stage wrote, one for each table, and on whatsapp no block is taken out
C14_UnterminatedFenceIsText ==
    (/\ pc = "done"
     /\ pipeline \in {"telegram", "whatsapp"}
     /\ result.kind # "TypeError"
     /\ \E p \in 1..Len(message.text) : StartsWithAt(message.text, p, <<BT, BT, BT>>)
     /\ MatchesFrom("codeBlock", message.text, 1) = <<>>) =>
        IF pipeline = "whatsapp" THEN WhatsAppExtract(message.text).codeBlocks = <<>>
        ELSE LET Inside(pre, blocks) ==
                     /\ Len(blocks) = Len(tables)
                     /\ \A k \in 1..Len(blocks) :
                            \A i \in blocks[k].index..(blocks[k].end - 1) :
                                pre.mark[i] # "text"
                 Converted(pre) == Inside(pre, MatchesFrom("codeBlock", pre.text, 1))
             IN  Converted(MConvertTables(Plain(message.text), "telegram"))

\* the texts that a token can have been cut from
TokenSources(token) ==
    LET tx == token.text.text
    IN  CASE token.type = "bold" -> {<<"*", "*">> \o tx \o <<"*", "*">>}
          [] token.type = "strike" -> {<<"~", "~">> \o tx \o <<"~", "~">>}
          [] token.type = "italic" -> {<<"*">> \o tx \o <<"*">>, <<"_">> \o tx \o <<"_">>}
          [] token.type = "link" -> {<<"[">> \o tx \o <<"]", "(">> \o token.url.text \o <<")">>}
          [] OTHER -> {tx}

RECURSIVE TokensCover(_, _, _, _)
\* the tokens from number i on are cut from s at p, one after the other up
\* to the end of s
TokensCover(tokens, i, s, p) ==
    IF i > Len(tokens) THEN p = Len(s) + 1
    ELSE \E src \in TokenSources(tokens[i]) :
            /\ StartsWithAt(s, p, src)
            /\ TokensCover(tokens, i + 1, s, p + Len(src))

\* C15: the tokens of every text segment lie in the tokenized text one
\* after the other, without gaps or overlaps, from its start to its end;
\* each match of inlineRegex gives one typed token, and the raw tokens are
\* the non-empty runs between the matches
C15_TokensPartitionInput ==
    (pc = "done" /\ pipeline = "telegram" /\ result.kind # "TypeError") =>
        LET Tokenized(working, tokens, matches) ==
                /\ TokensCover(tokens, 1, working.text, 1)
                /\ Cardinality({i \in 1..Len(tokens) : tokens[i].type # "raw"}) = Len(matches)
                /\ \A i \in 1..Len(tokens) :
                       tokens[i].type = "raw" =>
                           /\ tokens[i].text.text # <<>>
                           /\ i < Len(tokens) => tokens[i + 1].type # "raw"
            Working(content, working) ==
                Tokenized(working, Tokenize(content), MatchesFrom("inline", working.text, 1))
            Each(segments) ==
                \A k \in 1..Len(segments) :
                    segments[k].type = "text" =>
                        Working(segments[k].content,
                                ApplyRules(TelegramBlockRules, segments[k].content, 1))
        IN  Each(TelegramSegments(message.text))

\* a text of a raw run, a link and a raw run was tokenized
C15_Witness ==
    /\ pc = "done"
    /\ pipeline = "telegram"
    /\ message = Str(<<"x">> \o InlineFragments[5] \o <<"x">>)
    /\ LET tokens == Tokenize(Plain(message.text))
       IN  /\ Len(tokens) = 3
           /\ tokens[1] = Token("raw", Plain(<<"x">>), NoUrl)
           /\ tokens[2].type = "link"
           /\ tokens[3] = Token("raw", Plain(<<"x">>), NoUrl)

\* C16: in the box of a table on telegram the cell of column i stands
\* between the blanks that the separator cell i asks for: ':--' and '---'
\* all blanks after the cell, '--:' all blanks before it, ':-:' half of the
\* blanks, rounded down, before it and the others after it; with the
\* blanks the cell is as wide as its column
C16_CellsAlignedBySeparator ==
    (pc = "done" /\ pipeline = "telegram" /\ Len(tables) = 1) =>
        LET t == tables[1]
            separators == Inner(Split(Split(message.text, NL)[2], "|"))
            before(i, gap) ==
                CASE separators[i] \in {<<":", "-", "-">>, <<"-", "-", "-">>} -> 0
                  [] separators[i] = <<"-", "-", ":">> -> gap
                  [] separators[i] = <<":", "-", ":">> -> gap \div 2
            cell(r, i) ==
                LET gap == t.colWidths[i].v - Len(r[i])
                IN  Repeat(" ", before(i, gap)) \o r[i] \o Repeat(" ", gap - before(i, gap))
            line(r) ==
                <<BOX.v>> \o Join([i \in 1..Len(r) |-> <<" ">> \o cell(r, i) \o <<" ">>],
                                  <<BOX.v>>)
                          \o <<BOX.v>>
        IN  /\ Len(separators) = Len(t.headers)
            /\ \A i \in 1..Len(t.headers) : Len(cell(t.headers, i)) = t.colWidths[i].v
            /\ t.lines[2] = line(t.headers)
            /\ \A r \in 1..Len(t.bodyRows) : t.lines[3 + r] = line(t.bodyRows[r])

\* a table with header cells of one character in columns of four, the first
\* centered and the second aligned to the right
C16_Witness ==
    /\ pc = "done"
    /\ pipeline = "telegram"
    /\ Len(tables) = 1
    /\ tables[1].aligns = <<"center", "right">>
    /\ tables[1].lines[2] =
           <<BOX.v, " ", " ", "h", " ", " ", " ", BOX.v, " ", " ", " ", " ", "h", " ", BOX.v>>

\* C17: on telegram, whatsapp and plaintext every line of the text that
\* starts, after blanks, with "-" or "*" and a white-space character gives a
\* bullet glyph in the output: no marker is taken as an emphasis delimiter
C17_BulletsBeforeEmphasis ==
    (pc = "done" /\ pipeline # "none" /\ result.kind # "TypeError") =>
        LET s == message.text
            marker(p) == /\ LineStart(s, p)
                         /\ At(s, RunEnd(s, p, {" ", "\t"}, FALSE)) \in {"-", "*"}
                         /\ At(s, RunEnd(s, p, {" ", "\t"}, FALSE) + 1) \in SpaceChars
        IN  Cardinality({p \in 1..Len(s) : marker(p)})
                <= Cardinality({i \in 1..Len(result.text) : result.text[i] = BULLET})

\* C18: the output of the telegram, whatsapp and plaintext pipelines has no
\* three newlines in a row and neither begins nor ends with a white-space
\* character
C18_CollapsedAndTrimmed ==
    (pc = "done" /\ pipeline # "none" /\ result.kind # "TypeError") =>
        /\ \A i \in 1..(Len(result.text) - 2) :
               ~(result.text[i] = NL /\ result.text[i + 1] = NL /\ result.text[i + 2] = NL)
        /\ At(result.text, 1) \notin SpaceChars
        /\ At(result.text, Len(result.text)) \notin SpaceChars

\* a text with three newlines between two lines and one at its end came out
\* of the plaintext pipeline with two newlines between the lines
C18_Witness ==
    /\ pc = "done"
    /\ pipeline = "plaintext"
    /\ message = Str(<<"|", "a", "|", NL, NL, NL, "|", "a", "|", NL>>)
    /\ result = Str(<<"|", "a", "|", NL, NL, "|", "a", "|">>)

\* C19: on telegram every text segment is rendered token by token: bold as
\* *x*, italic as _x_, strike as ~x~, a link as [text](url), a bare URL as
\* [url](url) and a raw run as it is, where every reserved character of the
\* text gets a backslash and, in the target of a link, only ")" and the
\* backslash do
C19_TokensInTelegramDialect ==
    (pc = "done" /\ pipeline = "telegram" /\ result.kind # "TypeError") =>
        LET escapeAll(s, reserved) ==
                Flatten([i \in 1..Len(s) |->
                            IF s[i] \in reserved THEN <<"\\", s[i]>> ELSE <<s[i]>>])
            display(token) == escapeAll(token.text.text, TELEGRAM_SPECIAL)
            target(s) == escapeAll(s, {")", "\\"})
            rendered(token) ==
                CASE token.type = "bold" -> <<"*">> \o display(token) \o <<"*">>
                  [] token.type = "italic" -> <<"_">> \o display(token) \o <<"_">>
                  [] token.type = "strike" -> <<"~">> \o display(token) \o <<"~">>
                  [] token.type = "link" ->
                        <<"[">> \o display(token) \o <<"]", "(">>
                            \o target(token.url.text) \o <<")">>
                  [] token.type = "bare_url" ->
                        <<"[">> \o display(token) \o <<"]", "(">>
                            \o target(token.text.text) \o <<")">>
                  [] token.type = "raw" -> display(token)
            Tokens(content, tokens) ==
                transformTelegramText(content, 0).out.text
                    = Flatten([i \in 1..Len(tokens) |-> rendered(tokens[i])])
            Each(segments) ==
                \A k \in 1..Len(segments) :
                    segments[k].type = "text" =>
                        Tokens(segments[k].content, Tokenize(segments[k].content))
        IN  Each(TelegramSegments(message.text))

\* a bare URL with a dot and a link with a dot in its text and a backslash
\* in its target were rendered
C19_Witness ==
    /\ pc = "done"
    /\ pipeline = "telegram"
    /\ message = Str(InlineFragments[6] \o <<NL>> \o InlineFragments[5])
    /\ result.text =
           <<"[", "h", "t", "t", "p", ":", "/", "/", "a", "\\", ".", "b", "]",
             "(", "h", "t", "t", "p", ":", "/", "/", "a", ".", "b", ")", NL,
             "[", "t", "\\", ".", "]", "(", "u", "\\", "\\", ")">>

\* C20: every step of the loops of formatTelegram (over codeBlockRegex,
\* inlineCodeRegex and inlineRegex) brings the call nearer to its end: a
\* call of exec that finds a match leaves a position further to the right
\* in the text, at most one past its end, and every other step leaves fewer
\* texts or fewer loops to run; so no call scans for ever
C20_ScansAdvanceAndEnd ==
    [][(pc = "scanning" /\ pc' = "scanning") =>
          LET left(loop) == CASE loop = "codeBlock" -> 2
                              [] loop = "inlineCode" -> 1
                              [] loop = "inline" -> 0
          IN  \/ left(scan'.loop) < left(scan.loop)
              \/ /\ scan'.loop = scan.loop
                 /\ Len(scan'.texts) < Len(scan.texts)
              \/ /\ scan'.loop = scan.loop
                 /\ scan'.texts = scan.texts
                 /\ scan'.cursor > scan.cursor
                 /\ scan'.cursor <= Len(Head(scan.texts)) + 1]_vars

\* the loop over inlineRegex has consumed a bold span after the loops over
\* the code had run
C20_Witness ==
    /\ pc = "scanning"
    /\ message = Str(<<BT, "c", BT, "*", "*", "x", "*", "*", "a">>)
    /\ scan = [loop |-> "inline", texts |-> << <<"*", "*", "x", "*", "*", "a">> >>,
               cursor |-> 6, execs |-> 4]

\* C21: whenever the page is in the state 'speaking' the list of enemies is
\* empty and targetEnemy is null, after any sequence of events and frames;
\* and a handler that spawns an enemy or chooses a target leaves the page
\* in 'listening', having entered it, or in 'thinking' or 'collaborating'
C21_SpeakingHasNoEnemies ==
    /\ [](game.currentState = "speaking"
             => game.enemies = <<>> /\ game.targetEnemy = Null)
    /\ [][(\/ Ids(game'.enemies) \ Ids(game.enemies) # {}
           \/ game'.targetEnemy \notin {Null, game.targetEnemy})
             => \/ game'.currentState = "listening" /\ game.currentState # "listening"
                \/ game'.currentState \in {"thinking", "collaborating"}]_vars

\* 'speaking' has just been entered by an event, with no shot in flight,
\* after enemies were spawned
C21_Witness ==
    /\ game.currentState = "speaking"
    /\ game.stateTime = 0
    /\ game.spawned >= 2
    /\ game.bullets = 0
    /\ game.fireTimer = 0
    /\ game.enemies = <<>>
    /\ game.targetEnemy = Null

====
